---------------------------- MODULE Spec2Model ----------------------------
(***************************************************************************)
(* Model of zbot/database.py: the MongoDBConnector data-access layer.      *)
(*                                                                         *)
(* A document is a function from field names to values; a collection is a *)
(* sequence of documents in insertion order.  Every method of the          *)
(* connector is one action, except get_anniversary_account_ids, whose      *)
(* while loop is modelled one iteration per step.  `last' records the call *)
(* made last, with the arguments and the return value the properties use.  *)
(*                                                                         *)
(* Not modelled, because no property below reads them:                     *)
(* insert_recruitment_announce, delete_recruitment_announces,              *)
(* load_recruitment_announces_data and load_pending_jobs_data.             *)
(***************************************************************************)
EXTENDS Integers, Sequences, FiniteSets, TLC

VARIABLES
    client,       \* self.client: None or the MongoClient built last
    connected,    \* self.connected
    database,     \* self.database: None or the database handle
    collections,  \* self.collections: the names with a cached handle
    db,           \* the database itself: collection name -> documents
    next_oid,     \* next identifier the database assigns on insert_one
    last,         \* the call made last: op, and arguments and ret if needed
    frame,        \* locals of a running get_anniversary_account_ids
    last_set,     \* history: per metadata key, the value set last
    upserted      \* history: per collection, the identifiers upserted

vars == <<client, connected, database, collections, db, next_oid, last,
          frame, last_set, upserted>>

conn_vars == <<client, connected, database, collections>>

None == "None"

-----------------------------------------------------------------------------
(* Bounds of the model.                                                    *)

MaxId == 2          \* member / announce / job identifiers are 1..MaxId
MaxBatch == 2       \* longest list or dict passed to a batch method
MaxInserts == 2     \* insert_one calls (database-assigned ids) per run
TicksPerDay == 2    \* instants of a day told apart: 0 is midnight
FirstOid == 101     \* database-assigned ids lie apart from 1..MaxId
SmallId == 1        \* identifiers 1..SmallId where collections are combined
MaxYearsBack == 2   \* reference dates reach this many years past 2020

Ids == 1..MaxId
Oids == FirstOid..(FirstOid + MaxInserts - 1)
MetadataKeys == {"last_sync", "last_backup"}
MetadataValues == {"a", "b", "c"}

-----------------------------------------------------------------------------
(* Documents and the driver's single-document operations.                  *)

SeqsUpTo(S, n) == UNION {[1..k -> S] : k \in 0..n}

\* {'_id': id}
IdDoc(id) == [f \in {"_id"} |-> id]

\* The effect of {'$set': fields} on a document: fields are added or
\* overwritten, all other fields are kept.
SetFields(doc, fields) ==
    [f \in DOMAIN doc \cup DOMAIN fields |->
        IF f \in DOMAIN fields THEN fields[f] ELSE doc[f]]

\* Index of the first document of coll with the given _id, 0 if none.
FindIndex(coll, id) ==
    IF \E i \in 1..Len(coll) : coll[i]["_id"] = id
    THEN CHOOSE i \in 1..Len(coll) :
            /\ coll[i]["_id"] = id
            /\ \A j \in 1..(i - 1) : coll[j]["_id"] # id
    ELSE 0

\* update_one({'_id': id}, {'$set': fields}, upsert=upsert): the collection
\* afterwards.  With no match, upsert inserts {'_id': id} with the fields set;
\* without upsert nothing changes.
UpdateOne(coll, id, fields, upsert) ==
    LET i == FindIndex(coll, id) IN
    IF i # 0 THEN [coll EXCEPT ![i] = SetFields(coll[i], fields)]
    ELSE IF upsert THEN Append(coll, SetFields(IdDoc(id), fields))
    ELSE coll

\* insert_one(fields): the database assigns the _id.
InsertOne(coll, fields, oid) == Append(coll, SetFields(IdDoc(oid), fields))

\* delete_one({'_id': id}): the first match is removed.
DeleteOne(coll, id) ==
    LET i == FindIndex(coll, id) IN
    IF i = 0 THEN coll
    ELSE [j \in 1..(Len(coll) - 1) |-> IF j < i THEN coll[j] ELSE coll[j + 1]]

\* A query of equality conditions matches a document that has every field
\* of the query with the value asked for; the empty query matches all.
Matches(doc, query) ==
    \A f \in DOMAIN query : f \in DOMAIN doc /\ doc[f] = query[f]

\* The projection find(query, {k: 1 for k in keys}) applies to a document:
\* an empty projection returns the whole document, otherwise the requested
\* fields that exist plus _id, which the database returns unless excluded.
Project(doc, keys) ==
    IF keys = {} THEN doc
    ELSE [f \in DOMAIN doc \cap (keys \cup {"_id"}) |-> doc[f]]

\* The _id values held in a collection.
IdsOf(coll) == {coll[i]["_id"] : i \in 1..Len(coll)}

\* Number of documents of coll with the given _id.
CountId(coll, id) == Cardinality({i \in 1..Len(coll) : coll[i]["_id"] = id})

-----------------------------------------------------------------------------
(* Connection manager.                                                     *)

ACCOUNT_DATA_COLLECTION == "account_data"
AUTOMESSAGES_COLLECTION == "automessage"
METADATA_COLLECTION == "metadata"
PENDING_LOTTERIES_COLLECTION == "pending_lottery"
PENDING_POLLS_COLLECTION == "pending_poll"
RECRUITMENT_ANNOUNCES_COLLECTION == "recruitment_announce"

COLLECTIONS_CONFIG ==
    [c \in {ACCOUNT_DATA_COLLECTION, AUTOMESSAGES_COLLECTION,
            METADATA_COLLECTION, PENDING_LOTTERIES_COLLECTION,
            PENDING_POLLS_COLLECTION, RECRUITMENT_ANNOUNCES_COLLECTION} |->
        [is_jobstore |-> c \in {PENDING_LOTTERIES_COLLECTION,
                                PENDING_POLLS_COLLECTION}]]

CollectionNames == DOMAIN COLLECTIONS_CONFIG
JobStores == {c \in CollectionNames : COLLECTIONS_CONFIG[c].is_jobstore}
UpsertCollections ==
    {METADATA_COLLECTION, RECRUITMENT_ANNOUNCES_COLLECTION,
     ACCOUNT_DATA_COLLECTION}

\* No call is in progress: get_anniversary_account_ids is synchronous.
Idle == frame.pc = "idle"

Init ==
    /\ client = None
    /\ connected = FALSE
    /\ database = None
    /\ collections = {}
    /\ db = [c \in CollectionNames |-> <<>>]
    /\ next_oid = FirstOid
    /\ last = [op |-> "__init__"]
    /\ frame = [pc |-> "idle"]
    /\ last_set = [k \in MetadataKeys |-> None]
    /\ upserted = [c \in UpsertCollections |-> {}]

\* The value self.connected has when open_connection returns.
ConnectedAfterOpen(probe_ok) == IF probe_ok THEN TRUE ELSE connected

\* open_connection(): probe_ok is whether the 'ismaster' command succeeds;
\* when it raises ConnectionFailure the except branch only logs.
open_connection(probe_ok) ==
    /\ Idle
    /\ client' = "MongoClient"
    /\ connected' = ConnectedAfterOpen(probe_ok)
    /\ database' = IF probe_ok THEN "database" ELSE database
    /\ collections' = IF probe_ok THEN CollectionNames ELSE collections
    /\ last' = [op |-> "open_connection", probe_ok |-> probe_ok, probes |-> 1,
                ret |-> connected']
    /\ UNCHANGED <<db, next_oid, frame, last_set, upserted>>

\* Any repository method called while self.database is None: subscripting
\* None raises before anything reaches the database.
NoDatabase(op) ==
    /\ Idle
    /\ database = None
    /\ last' = [op |-> op, raised |-> "TypeError"]
    /\ UNCHANGED <<conn_vars, db, next_oid, frame, last_set, upserted>>

\* A repository method that returns ret and leaves coll as the content of
\* the collection called name.
Returns(name, coll, record) ==
    /\ Idle
    /\ database # None
    /\ db' = [db EXCEPT ![name] = coll]
    /\ last' = record
    /\ UNCHANGED <<conn_vars, frame>>

-----------------------------------------------------------------------------
(* Metadata.                                                               *)

\* Mutant: the value is written only when the key is new ($setOnInsert).
MetadataAfterUpdate_InsertOnly(key, value) ==
    IF FindIndex(db[METADATA_COLLECTION], key) # 0
    THEN db[METADATA_COLLECTION]
    ELSE UpdateOne(db[METADATA_COLLECTION], key, [f \in {"data"} |-> value],
                   TRUE)

MetadataAfterUpdate(key, value) ==
    UpdateOne(db[METADATA_COLLECTION], key, [f \in {"data"} |-> value], TRUE)

update_metadata(key, value) ==
    \/ NoDatabase("update_metadata")
    \/ /\ Returns(METADATA_COLLECTION, MetadataAfterUpdate(key, value),
                  [op |-> "update_metadata", key |-> key, value |-> value])
       /\ last_set' = [last_set EXCEPT ![key] = value]
       /\ upserted' = [upserted EXCEPT ![METADATA_COLLECTION] = @ \cup {key}]
       /\ UNCHANGED next_oid

\* What get_metadata(key) returns in the current state.
GetMetadataRet(key) ==
    LET i == FindIndex(db[METADATA_COLLECTION], key) IN
    IF i # 0 THEN db[METADATA_COLLECTION][i]["data"] ELSE None

get_metadata(key) ==
    \/ NoDatabase("get_metadata")
    \/ /\ Returns(METADATA_COLLECTION, db[METADATA_COLLECTION],
                  [op |-> "get_metadata", key |-> key,
                   ret |-> GetMetadataRet(key)])
       /\ UNCHANGED <<next_oid, last_set, upserted>>

-----------------------------------------------------------------------------
(* Recruitment announces.                                                  *)

AnnounceAuthors == {7, 8}
AnnounceTimes == {1000}

AnnounceFields(announce) ==
    [f \in {"author", "time"} |->
        IF f = "author" THEN announce.author ELSE announce.created_at]

\* One iteration of the loop of update_recruitment_announces.
AnnounceUpsert(coll, announce) ==
    UpdateOne(coll, announce.id, AnnounceFields(announce), TRUE)

RECURSIVE AnnouncesAfterUpdate(_, _)
AnnouncesAfterUpdate(coll, announces) ==
    IF announces = <<>> THEN coll
    ELSE AnnouncesAfterUpdate(AnnounceUpsert(coll, Head(announces)),
                              Tail(announces))

update_recruitment_announces(announces) ==
    \/ NoDatabase("update_recruitment_announces")
    \/ /\ Returns(RECRUITMENT_ANNOUNCES_COLLECTION,
                  AnnouncesAfterUpdate(db[RECRUITMENT_ANNOUNCES_COLLECTION],
                                       announces),
                  [op |-> "update_recruitment_announces"])
       /\ upserted' = [upserted EXCEPT ![RECRUITMENT_ANNOUNCES_COLLECTION] =
                          @ \cup {announces[i].id : i \in 1..Len(announces)}]
       /\ UNCHANGED <<next_oid, last_set>>

-----------------------------------------------------------------------------
(* Account data.                                                           *)

\* Mutant: the matched document is replaced instead of updated (replace_one).
AccountUpsert_Replace(coll, item) ==
    LET i == FindIndex(coll, item[1]) IN
    IF i # 0 THEN [coll EXCEPT ![i] = SetFields(IdDoc(item[1]), item[2])]
    ELSE Append(coll, SetFields(IdDoc(item[1]), item[2]))

\* One iteration of the loop of update_accounts_data: item is a pair
\* <<member.id, account_data>>.
AccountUpsert(coll, item) == UpdateOne(coll, item[1], item[2], TRUE)

RECURSIVE AccountsAfterUpdate(_, _)
AccountsAfterUpdate(coll, items) ==
    IF items = <<>> THEN coll
    ELSE AccountsAfterUpdate(AccountUpsert(coll, Head(items)), Tail(items))

\* accounts_data is a dict: its items, in order, have distinct members.
update_accounts_data(items) ==
    \/ NoDatabase("update_accounts_data")
    \/ /\ \A i, j \in 1..Len(items) : items[i][1] = items[j][1] => i = j
       /\ Returns(ACCOUNT_DATA_COLLECTION,
                  AccountsAfterUpdate(db[ACCOUNT_DATA_COLLECTION], items),
                  [op |-> "update_accounts_data"])
       /\ upserted' = [upserted EXCEPT ![ACCOUNT_DATA_COLLECTION] =
                          @ \cup {items[i][1] : i \in 1..Len(items)}]
       /\ UNCHANGED <<next_oid, last_set>>

\* account_ids of get_unrecorded_members: the _id of every document that
\* find({}, {'_id': 1}) returns.
AccountIds(coll) ==
    [i \in 1..Len(coll) |-> Project(coll[i], {"_id"})["_id"]]

\* Mutant: the filter keeps the recorded members ('in' for 'not in').
UnrecordedMembers_Recorded(coll, members) ==
    LET account_ids == AccountIds(coll)
        recorded(m) == \E i \in 1..Len(account_ids) : account_ids[i] = m
    IN SelectSeq(members, recorded)

\* The filter of get_unrecorded_members; a member is modelled by its id.
UnrecordedMembers(coll, members) ==
    LET account_ids == AccountIds(coll)
        unrecorded(m) == \A i \in 1..Len(account_ids) : account_ids[i] # m
    IN SelectSeq(members, unrecorded)

get_unrecorded_members(members) ==
    \/ NoDatabase("get_unrecorded_members")
    \/ /\ Returns(ACCOUNT_DATA_COLLECTION, db[ACCOUNT_DATA_COLLECTION],
                  [op |-> "get_unrecorded_members", members |-> members,
                   ret |-> UnrecordedMembers(db[ACCOUNT_DATA_COLLECTION],
                                             members)])
       /\ UNCHANGED <<next_oid, last_set, upserted>>

-----------------------------------------------------------------------------
(* Lottery and poll jobs.                                                  *)

JobData == {[next_run_time |-> 1], [next_run_time |-> 2]}

\* The job scheduler, which is not part of this layer, stores a job in one
\* of the job stores.
scheduler_add_job(collection_name, job_id) ==
    /\ Idle
    /\ database # None
    /\ job_id \notin IdsOf(db[collection_name])
    /\ db' = [db EXCEPT ![collection_name] =
                 Append(@, [_id |-> job_id, next_run_time |-> 1])]
    /\ last' = [op |-> "scheduler_add_job"]
    /\ UNCHANGED <<conn_vars, next_oid, frame, last_set, upserted>>

\* Mutant: the update is an upsert.
JobsAfterUpdate_Upsert(coll, job_id, data) ==
    UpdateOne(coll, job_id, data, TRUE)

JobsAfterUpdate(coll, job_id, data) == UpdateOne(coll, job_id, data, FALSE)

\* How many of the keys an update was called with have a document.
Matched(coll, keys) == Cardinality({n \in 1..Len(keys) : keys[n] \in IdsOf(coll)})

update_job_data(collection_name, job_id, data) ==
    \/ NoDatabase("update_job_data")
    \/ /\ Returns(collection_name,
                  JobsAfterUpdate(db[collection_name], job_id, data),
                  [op |-> "update_job_data",
                   matched |-> Matched(db[collection_name], <<job_id>>)])
       /\ UNCHANGED <<next_oid, last_set, upserted>>

delete_job_data(collection_name, job_id) ==
    \/ NoDatabase("delete_job_data")
    \/ /\ Returns(collection_name, DeleteOne(db[collection_name], job_id),
                  [op |-> "delete_job_data"])
       /\ UNCHANGED <<next_oid, last_set, upserted>>

-----------------------------------------------------------------------------
(* Auto-messages.                                                          *)

AutomessageTexts == {"hello"}
ChannelIds == {1}
AutomessageData == {[message |-> "bye"]}

\* The queries and key lists load_automessages is called with.
AutomessageQueries == {<<>>} \cup {[automessage_id |-> a] : a \in Ids}
AutomessageKeyLists ==
    {{}, {"message"}, {"_id", "message"}, {"automessage_id", "channel_id"},
     {"message", "guild_id"}}

insert_automessage(automessage_id, message, channel_id) ==
    \/ NoDatabase("insert_automessage")
    \/ /\ next_oid < FirstOid + MaxInserts
       /\ Returns(AUTOMESSAGES_COLLECTION,
                  InsertOne(db[AUTOMESSAGES_COLLECTION],
                            [automessage_id |-> automessage_id,
                             message |-> message,
                             channel_id |-> channel_id],
                            next_oid),
                  [op |-> "insert_automessage", ret |-> next_oid])
       /\ next_oid' = next_oid + 1
       /\ UNCHANGED <<last_set, upserted>>

\* One iteration of the loop of update_automessages: item is a pair
\* <<key, automessage_data>>.
AutomessageUpdate(coll, item) == UpdateOne(coll, item[1], item[2], FALSE)

RECURSIVE AutomessagesAfterUpdate(_, _)
AutomessagesAfterUpdate(coll, items) ==
    IF items = <<>> THEN coll
    ELSE AutomessagesAfterUpdate(AutomessageUpdate(coll, Head(items)),
                                 Tail(items))

\* automessages_data is a dict: its items, in order, have distinct keys.
update_automessages(items) ==
    \/ NoDatabase("update_automessages")
    \/ /\ \A i, j \in 1..Len(items) : items[i][1] = items[j][1] => i = j
       /\ Returns(AUTOMESSAGES_COLLECTION,
                  AutomessagesAfterUpdate(db[AUTOMESSAGES_COLLECTION], items),
                  [op |-> "update_automessages",
                   matched |-> Matched(db[AUTOMESSAGES_COLLECTION],
                                       [n \in 1..Len(items) |-> items[n][1]])])
       /\ UNCHANGED <<next_oid, last_set, upserted>>

delete_automessage(document_id) ==
    \/ NoDatabase("delete_automessage")
    \/ /\ Returns(AUTOMESSAGES_COLLECTION,
                  DeleteOne(db[AUTOMESSAGES_COLLECTION], document_id),
                  [op |-> "delete_automessage"])
       /\ UNCHANGED <<next_oid, last_set, upserted>>

\* Mutant: the document is returned as the database projected it.
KeepRequested_Unfiltered(automessage_data, data_keys) == automessage_data

\* The dict comprehension of load_automessages applied to one document the
\* database returned.
KeepRequested(automessage_data, data_keys) ==
    [k \in DOMAIN automessage_data \cap data_keys |-> automessage_data[k]]

\* What load_automessages(query, data_keys) returns in the current state.
LoadAutomessagesRet(query, data_keys) ==
    LET matching(doc) == Matches(doc, query)
        found == SelectSeq(db[AUTOMESSAGES_COLLECTION], matching)
    IN [i \in 1..Len(found) |->
           KeepRequested(Project(found[i], data_keys), data_keys)]

load_automessages(query, data_keys) ==
    \/ NoDatabase("load_automessages")
    \/ /\ Returns(AUTOMESSAGES_COLLECTION, db[AUTOMESSAGES_COLLECTION],
                  [op |-> "load_automessages", data_keys |-> data_keys,
                   ret |-> LoadAutomessagesRet(query, data_keys)])
       /\ UNCHANGED <<next_oid, last_set, upserted>>

-----------------------------------------------------------------------------
(* Specifications of the repositories.  The collections do not interact,   *)
(* so each specification exercises the methods of one group together with  *)
(* the connection manager, on inputs drawn from small sets.                *)

SmallIds == 1..SmallId

\* SpecUpsert: the values update_metadata is given, enough to overwrite one.
UpsertMetadataValues == {"a", "b"}

\* SpecUpsert: the fields update_accounts_data is given for a member.
UpsertFieldSets == {[display_name |-> "ann"], [creation_date |-> 5]}

\* SpecUpsert: the messages handed to update_recruitment_announces, each
\* with its id, author.id and created_at.
UpsertAnnounces ==
    [id : SmallIds, author : AnnounceAuthors, created_at : AnnounceTimes]

\* SpecAccounts: only the identifiers matter to get_unrecorded_members.
AccountItems == Ids \X {[display_name |-> "ann"], [display_name |-> "bob"]}

\* Keys of update_automessages: every assigned _id and one never assigned.
AutomessageItems == (Oids \cup {FirstOid + MaxInserts}) \X AutomessageData

\* SpecJobs: the first assigned _id and one never assigned.
JobsAutomessageItems == {FirstOid, FirstOid + MaxInserts} \X AutomessageData

Connect == \E probe_ok \in BOOLEAN : open_connection(probe_ok)

NextConn ==
    \/ Connect
    \/ \E key \in MetadataKeys, value \in MetadataValues :
          update_metadata(key, value)
    \/ \E key \in MetadataKeys : get_metadata(key)

NextUpsert ==
    \/ Connect
    \/ \E key \in MetadataKeys, value \in UpsertMetadataValues :
          update_metadata(key, value)
    \/ \E announces \in SeqsUpTo(UpsertAnnounces, MaxBatch) :
          update_recruitment_announces(announces)
    \/ \E items \in SeqsUpTo(SmallIds \X UpsertFieldSets, MaxBatch) :
          update_accounts_data(items)

NextAccounts ==
    \/ Connect
    \/ \E items \in SeqsUpTo(AccountItems, MaxBatch) :
          update_accounts_data(items)
    \/ \E members \in SeqsUpTo(Ids, MaxBatch + 1) :
          get_unrecorded_members(members)

NextJobs ==
    \/ Connect
    \/ \E c \in JobStores, job_id \in SmallIds : scheduler_add_job(c, job_id)
    \/ \E c \in JobStores, job_id \in SmallIds, data \in JobData :
          update_job_data(c, job_id, data)
    \/ \E c \in JobStores, job_id \in SmallIds : delete_job_data(c, job_id)
    \/ \E a \in SmallIds, m \in AutomessageTexts, c \in ChannelIds :
          insert_automessage(a, m, c)
    \/ \E items \in SeqsUpTo(JobsAutomessageItems, MaxBatch) :
          update_automessages(items)

NextAuto ==
    \/ Connect
    \/ \E a \in Ids, m \in AutomessageTexts, c \in ChannelIds :
          insert_automessage(a, m, c)
    \/ \E items \in SeqsUpTo(AutomessageItems, MaxBatch) :
          update_automessages(items)
    \/ \E document_id \in Oids : delete_automessage(document_id)
    \/ \E query \in AutomessageQueries, data_keys \in AutomessageKeyLists :
          load_automessages(query, data_keys)

SpecConn == Init /\ [][NextConn]_vars
SpecUpsert == Init /\ [][NextUpsert]_vars
SpecAccounts == Init /\ [][NextAccounts]_vars
SpecJobs == Init /\ [][NextJobs]_vars
SpecAuto == Init /\ [][NextAuto]_vars

-----------------------------------------------------------------------------
(* Dates.  A date is [year, month, day]; a datetime adds tick, the instant *)
(* of the day, with tick 0 midnight.  All datetimes are in the community   *)
(* timezone.                                                               *)

IsLeap(year) == year % 4 = 0 /\ (year % 100 # 0 \/ year % 400 = 0)

DaysInMonth(year, month) ==
    IF month = 2 THEN (IF IsLeap(year) THEN 29 ELSE 28)
    ELSE IF month \in {4, 6, 9, 11} THEN 30
    ELSE 31

Min(a, b) == IF a <= b THEN a ELSE b

\* dt - relativedelta(years=1): the year is decremented and the day is cut
\* to the length of the month in the new year; the time is kept.
MinusOneYear(dt) ==
    [dt EXCEPT !.year = dt.year - 1,
               !.day = Min(dt.day, DaysInMonth(dt.year - 1, dt.month))]

\* dt + relativedelta(days=1): the same time on the next calendar day.
PlusOneDay(dt) ==
    IF dt.day < DaysInMonth(dt.year, dt.month)
    THEN [dt EXCEPT !.day = dt.day + 1]
    ELSE IF dt.month < 12
         THEN [dt EXCEPT !.month = dt.month + 1, !.day = 1]
         ELSE [dt EXCEPT !.year = dt.year + 1, !.month = 1, !.day = 1]

\* The same time on the previous calendar day.
PrevDay(dt) ==
    IF dt.day > 1 THEN [dt EXCEPT !.day = dt.day - 1]
    ELSE IF dt.month > 1
         THEN [dt EXCEPT !.month = dt.month - 1,
                         !.day = DaysInMonth(dt.year, dt.month - 1)]
         ELSE [dt EXCEPT !.year = dt.year - 1, !.month = 12, !.day = 31]

\* datetime.combine(d, datetime.time(0, 0)), localized.
Midnight(dt) == [dt EXCEPT !.tick = 0]

\* a >= b for datetimes.
AtOrAfter(a, b) ==
    \/ a.year > b.year
    \/ a.year = b.year /\ a.month > b.month
    \/ a.year = b.year /\ a.month = b.month /\ a.day > b.day
    \/ a.year = b.year /\ a.month = b.month /\ a.day = b.day
       /\ a.tick >= b.tick

\* Days from 1 January of year 1 to the date, in the Gregorian calendar.
RECURSIVE DaysBeforeMonth(_, _)
DaysBeforeMonth(year, month) ==
    IF month = 1 THEN 0
    ELSE DaysBeforeMonth(year, month - 1) + DaysInMonth(year, month - 1)

DayNumber(dt) ==
    LET y == dt.year - 1 IN
    365 * y + (y \div 4) - (y \div 100) + (y \div 400)
        + DaysBeforeMonth(dt.year, dt.month) + dt.day - 1

\* converter.to_timestamp(dt): the stored representation of an instant,
\* which grows with the instant.
to_timestamp(dt) == DayNumber(dt) * TicksPerDay + dt.tick

-----------------------------------------------------------------------------
(* Anniversaries.                                                          *)

\* Mutant: the first window is the day before the anniversary.
FirstAnniversaryDay_DayBefore(reference_date) ==
    Midnight(PrevDay(MinusOneYear(reference_date)))

\* Lines 153-155: midnight of the day one year before the reference date.
FirstAnniversaryDay(reference_date) == Midnight(MinusOneYear(reference_date))

\* Mutant: the loop goes on while the end of the window reaches min_date.
LoopContinues_DayAfter(anniversary_day, day_after_anniversary, min_date) ==
    AtOrAfter(day_after_anniversary, min_date)

\* The condition of the while loop.
LoopContinues(anniversary_day, day_after_anniversary, min_date) ==
    AtOrAfter(anniversary_day, min_date)

\* Mutant: anniversary_day is not stepped back.
PreviousAnniversary_Same(anniversary_day) == anniversary_day

\* Line 172: anniversary_day -= relativedelta(years=1).
PreviousAnniversary(anniversary_day) == MinusOneYear(anniversary_day)

\* The query of one iteration: the documents of account_data with a
\* creation_date strictly between the two timestamps, projected on _id and
\* display_name.
AnniversaryQuery(coll, anniversary_day, day_after_anniversary) ==
    LET in_window(doc) ==
            /\ "creation_date" \in DOMAIN doc
            /\ doc["creation_date"] > to_timestamp(anniversary_day)
            /\ doc["creation_date"] < to_timestamp(day_after_anniversary)
        found == SelectSeq(coll, in_window)
    IN [i \in 1..Len(found) |-> Project(found[i], {"_id", "display_name"})]

\* account_anniversaries.setdefault(years, []).append(id) for every
\* document of accounts_data, in order.
RECURSIVE AppendAll(_, _, _)
AppendAll(account_anniversaries, years, accounts_data) ==
    IF accounts_data = <<>> THEN account_anniversaries
    ELSE LET id == Head(accounts_data)["_id"]
             bucket == IF years \in DOMAIN account_anniversaries
                       THEN account_anniversaries[years] ELSE <<>>
             next == [y \in DOMAIN account_anniversaries \cup {years} |->
                         IF y = years THEN Append(bucket, id)
                         ELSE account_anniversaries[y]]
         IN AppendAll(next, years, Tail(accounts_data))

\* Lines 152-160: the call starts and initialises its locals.
get_anniversary_account_ids(reference_date, min_account_creation_date) ==
    \/ /\ Idle
       /\ database # None
       /\ frame' =
            [pc |-> "while",
             reference_date |-> reference_date,
             min_account_creation_date |-> min_account_creation_date,
             anniversary_day |-> FirstAnniversaryDay(reference_date),
             day_after_anniversary |->
                PlusOneDay(FirstAnniversaryDay(reference_date)),
             account_anniversaries |-> <<>>,
             display_names |-> <<>>,
             anniversary_years |-> 1,
             queries |-> 0]
       /\ last' = [op |-> "get_anniversary_account_ids", running |-> TRUE]
       /\ UNCHANGED <<conn_vars, db, next_oid, last_set, upserted>>
    \/ NoDatabase("get_anniversary_account_ids")

\* Lines 161-178: one test of the loop condition, followed by one iteration
\* of the loop body or by the return.
anniversary_loop ==
    /\ frame.pc = "while"
    /\ \/ /\ LoopContinues(frame.anniversary_day, frame.day_after_anniversary,
                           frame.min_account_creation_date)
          /\ LET accounts_data ==
                     AnniversaryQuery(db[ACCOUNT_DATA_COLLECTION],
                                      frame.anniversary_day,
                                      frame.day_after_anniversary)
             IN frame' =
                  [frame EXCEPT
                     !.account_anniversaries =
                         AppendAll(@, frame.anniversary_years, accounts_data),
                     !.display_names =
                         @ \o [i \in 1..Len(accounts_data) |->
                                  accounts_data[i]["display_name"]],
                     !.queries = @ + 1,
                     !.anniversary_years = @ + 1,
                     !.anniversary_day = PreviousAnniversary(@),
                     !.day_after_anniversary = MinusOneYear(@)]
          /\ UNCHANGED last
       \/ /\ ~LoopContinues(frame.anniversary_day,
                            frame.day_after_anniversary,
                            frame.min_account_creation_date)
          /\ frame' = [pc |-> "idle"]
          /\ last' = [op |-> "get_anniversary_account_ids",
                      reference_date |-> frame.reference_date,
                      min_account_creation_date |->
                          frame.min_account_creation_date,
                      queries |-> frame.queries,
                      ret |-> frame.account_anniversaries]
    /\ UNCHANGED <<conn_vars, db, next_oid, last_set, upserted>>

\* Inputs: reference dates up to MaxYearsBack years after the leap year
\* 2020, creation dates around the end of February of that year and of the
\* year before, at midnight and during the day.
Ticks == 0..(TicksPerDay - 1)

Datetime(year, month, day, tick) ==
    [year |-> year, month |-> month, day |-> day, tick |-> tick]

\* 29 February 2020 and, for every later year, 28 February and 1 March; at
\* midnight and at the last instant told apart.
ReferenceDays ==
    {<<2020, 2, 29>>}
        \cup {<<y, md[1], md[2]>> :
                 y \in 2021..(2020 + MaxYearsBack), md \in {<<2, 28>>, <<3, 1>>}}

ReferenceDates ==
    {Datetime(d[1], d[2], d[3], t) :
        d \in ReferenceDays, t \in {0, TicksPerDay - 1}}

MinCreationDates ==
    {Datetime(2019, 2, 27, 0), Datetime(2019, 2, 28, 0),
     Datetime(2020, 2, 28, 1)}

CreationDays ==
    {<<2019, 2, 27>>, <<2019, 2, 28>>, <<2019, 3, 1>>,
     <<2020, 2, 28>>, <<2020, 2, 29>>, <<2020, 3, 1>>}

CreationDates ==
    {Datetime(d[1], d[2], d[3], t) : d \in CreationDays, t \in Ticks}

DisplayName(id) == IF id = 1 THEN "ann" ELSE "bob"

AnniversaryAccounts ==
    {<<id, [creation_date |-> to_timestamp(dt),
            display_name |-> DisplayName(id)]>> :
        id \in 1..2, dt \in CreationDates}

NextAnniv ==
    \/ Connect
    \/ \E item \in AnniversaryAccounts : update_accounts_data(<<item>>)
    \/ \E reference_date \in ReferenceDates,
          min_account_creation_date \in MinCreationDates :
          get_anniversary_account_ids(reference_date,
                                      min_account_creation_date)
    \/ anniversary_loop

SpecAnniv == Init /\ [][NextAnniv]_vars

\* The loop is not interrupted: a call that started runs until it returns.
FairAnniv == SpecAnniv /\ WF_vars(anniversary_loop)

\* The whole connector.
Next ==
    \/ NextConn
    \/ NextUpsert
    \/ NextAccounts
    \/ NextJobs
    \/ NextAuto
    \/ NextAnniv

Spec == Init /\ [][Next]_vars

-----------------------------------------------------------------------------
(* Properties of the connection manager and the repositories.              *)

\* C1: every open_connection call whose liveness probe fails returns false
\* and leaves the manager disconnected, also after an earlier call on the
\* same connector succeeded; the call issues the probe once, without retry.
C1_FailedProbeDisconnects ==
    (last.op = "open_connection" /\ ~last.probe_ok) =>
        /\ last.ret = FALSE
        /\ connected = FALSE
        /\ last.probes = 1

\* C4: get_metadata(k) returns the value of the most recent
\* update_metadata(k, v), whatever was done to other keys, and None for a
\* key that was never updated.
C4_MetadataRoundTrip ==
    /\ \A k \in MetadataKeys : GetMetadataRet(k) = last_set[k]
    /\ (last.op = "get_metadata" /\ "ret" \in DOMAIN last) =>
          last.ret = last_set[last.key]

\* A key read back after it was set twice, while the other key holds a
\* different value.
C4_Witness ==
    /\ last.op = "get_metadata"
    /\ "ret" \in DOMAIN last
    /\ last.key = "last_sync"
    /\ last.ret = "b"
    /\ last_set["last_backup"] = "a"
    /\ Len(db[METADATA_COLLECTION]) = 2

\* Every identifier ever upserted into a collection has exactly one
\* document there, and the collection holds nothing else.
OneDocumentPerId ==
    \A c \in UpsertCollections :
        /\ IdsOf(db[c]) = upserted[c]
        /\ \A id \in upserted[c] : CountId(db[c], id) = 1

\* The method that upserts into a collection, and the fields it sets.
UpsertOf(c) ==
    IF c = METADATA_COLLECTION THEN "update_metadata"
    ELSE IF c = RECRUITMENT_ANNOUNCES_COLLECTION
         THEN "update_recruitment_announces"
         ELSE "update_accounts_data"

FieldsSetIn(c) ==
    IF c = METADATA_COLLECTION THEN {"data"}
    ELSE IF c = RECRUITMENT_ANNOUNCES_COLLECTION THEN {"author", "time"}
    ELSE {"display_name", "creation_date"}

\* A step keeps every document that existed, with all its fields: a field
\* of the old document is still there, with its old value unless the step
\* is the collection's upsert and the field is one the upsert sets.
DocumentsMerged ==
    \A c \in UpsertCollections : \A i \in 1..Len(db[c]) :
        LET old == db[c][i]
            j == FindIndex(db'[c], old["_id"])
        IN /\ j # 0
           /\ DOMAIN old \subseteq DOMAIN db'[c][j]
           /\ \A f \in DOMAIN old :
                 \/ db'[c][j][f] = old[f]
                 \/ f \in FieldsSetIn(c) /\ last'.op = UpsertOf(c)

\* C5: after any sequence of upserts each collection holds exactly one
\* document per identifier ever upserted into it, and a repeated upsert
\* merges the new fields into the existing document instead of replacing it.
C5_UpsertKeepsOneDocument ==
    /\ []OneDocumentPerId
    /\ [][DocumentsMerged]_vars

\* An account document that got its two fields from two different upserts,
\* next to a metadata key and an announce that were upserted as well.
C5_Witness ==
    /\ last.op = "update_accounts_data"
    /\ \E i \in 1..Len(db[ACCOUNT_DATA_COLLECTION]) :
          DOMAIN db[ACCOUNT_DATA_COLLECTION][i] =
              {"_id", "display_name", "creation_date"}
    /\ upserted[METADATA_COLLECTION] # {}
    /\ upserted[RECRUITMENT_ANNOUNCES_COLLECTION] # {}

\* s is a subsequence of t: the elements of s occur in t in the same order.
IsSubsequence(s, t) ==
    \E pos \in [1..Len(s) -> 1..Len(t)] :
        /\ \A i \in 1..Len(s) : t[pos[i]] = s[i]
        /\ \A i, j \in 1..Len(s) : i < j => pos[i] < pos[j]

Occurrences(s, x) == Cardinality({i \in 1..Len(s) : s[i] = x})

\* The return value of get_unrecorded_members holds exactly the unrecorded
\* members of the input, as often and in the order the input holds them.
UnrecordedExactly ==
    (last.op = "get_unrecorded_members" /\ "ret" \in DOMAIN last) =>
        /\ IsSubsequence(last.ret, last.members)
        /\ \A m \in Ids :
              Occurrences(last.ret, m) =
                  IF m \in IdsOf(db[ACCOUNT_DATA_COLLECTION]) THEN 0
                  ELSE Occurrences(last.members, m)

\* C6: get_unrecorded_members returns exactly the members whose identifier
\* is not the _id of a document of account_data, in input order with
\* duplicates kept, and does not modify the collection.
C6_UnrecordedMembers ==
    /\ []UnrecordedExactly
    /\ [][last'.op = "get_unrecorded_members" => db' = db]_vars

\* A recorded member between two occurrences of an unrecorded one.
C6_Witness ==
    /\ last.op = "get_unrecorded_members"
    /\ "ret" \in DOMAIN last
    /\ last.members = <<2, 1, 2>>
    /\ last.ret = <<2, 2>>

\* C7: every record load_automessages returns has only fields of data_keys,
\* the database-assigned _id included when it was not requested.
C7_OnlyRequestedFields ==
    (last.op = "load_automessages" /\ "ret" \in DOMAIN last) =>
        \A i \in 1..Len(last.ret) : DOMAIN last.ret[i] \subseteq last.data_keys

\* Documents loaded with a key list that names neither _id nor every field
\* asked for.
C7_Witness ==
    /\ last.op = "load_automessages"
    /\ "ret" \in DOMAIN last
    /\ last.data_keys = {"message", "guild_id"}
    /\ Len(last.ret) = 2
    /\ \A i \in 1..Len(last.ret) : DOMAIN last.ret[i] = {"message"}

StoredIds == [c \in CollectionNames |-> IdsOf(db[c])]

\* A call of update_job_data or update_automessages keeps the identifiers
\* and the number of documents of every collection, and changes nothing
\* when none of the identifiers it was called with has a document.
UpdateCreatesNothing ==
    (/\ last'.op \in {"update_job_data", "update_automessages"}
     /\ "raised" \notin DOMAIN last') =>
        /\ StoredIds' = StoredIds
        /\ \A c \in CollectionNames : Len(db'[c]) = Len(db[c])
        /\ last'.matched = 0 => db' = db

\* A step that adds an identifier to a job store or to the auto-messages is
\* one of insert_automessage or of the job scheduler.
OnlyInsertsAdd ==
    (\E c \in JobStores \cup {AUTOMESSAGES_COLLECTION} :
        ~(IdsOf(db'[c]) \subseteq IdsOf(db[c])))
    => last'.op \in {"insert_automessage", "scheduler_add_job"}

\* C10: update_job_data and update_automessages never create a document;
\* only insert_automessage and the job scheduler add documents.
C10_UpdatesNeverCreate ==
    [][UpdateCreatesNothing /\ OnlyInsertsAdd]_vars

\* update_job_data was called for a job that has no document while the
\* other job store holds a job that was updated before.
C10_Witness ==
    /\ last.op = "update_job_data"
    /\ "raised" \notin DOMAIN last
    /\ last.matched = 0
    /\ db[PENDING_LOTTERIES_COLLECTION] = <<>>
    /\ db[PENDING_POLLS_COLLECTION] = <<[_id |-> 1, next_run_time |-> 2]>>

-----------------------------------------------------------------------------
(* Properties of get_anniversary_account_ids.                              *)

\* dt - relativedelta(years=n) and dt + relativedelta(years=n).
MinusYears(dt, n) ==
    [dt EXCEPT !.year = dt.year - n,
               !.day = Min(dt.day, DaysInMonth(dt.year - n, dt.month))]

PlusYears(dt, n) ==
    [dt EXCEPT !.year = dt.year + n,
               !.day = Min(dt.day, DaysInMonth(dt.year + n, dt.month))]

\* The number of whole years from min_date to reference_date.
WholeYears(min_date, reference_date) ==
    LET fit == {n \in 0..(reference_date.year - min_date.year) :
                   AtOrAfter(reference_date, PlusYears(min_date, n))}
    IN IF fit = {} THEN 0 ELSE CHOOSE n \in fit : \A m \in fit : m <= n

\* The value of anniversary_day in the n-th test of the loop condition.
RECURSIVE NthAnniversaryDay(_, _)
NthAnniversaryDay(reference_date, n) ==
    IF n = 1 THEN FirstAnniversaryDay(reference_date)
    ELSE MinusOneYear(NthAnniversaryDay(reference_date, n - 1))

\* A call of get_anniversary_account_ids has returned.
Returned == last.op = "get_anniversary_account_ids" /\ "ret" \in DOMAIN last

\* The buckets of the returned mapping that hold the identifier.
BucketsOf(id) ==
    {y \in DOMAIN last.ret : \E i \in 1..Len(last.ret[y]) : last.ret[y][i] = id}

Accounts == {db[ACCOUNT_DATA_COLLECTION][i] :
                i \in 1..Len(db[ACCOUNT_DATA_COLLECTION])}

\* The account was created exactly 2 years and 1 day before the reference
\* date of the call, and the loop visited the window of year 2.
CreatedTwoYearsAndADayBefore(doc) ==
    /\ doc["creation_date"] =
          to_timestamp(PrevDay(MinusYears(last.reference_date, 2)))
    /\ AtOrAfter(NthAnniversaryDay(last.reference_date, 2),
                 last.min_account_creation_date)

\* C2 as stated: an account created exactly 2 years and 1 day before the
\* reference date is in bucket 2 and in neither bucket 1 nor bucket 3.
C2_DayBeforeInBucketTwo ==
    Returned =>
        \A doc \in Accounts : CreatedTwoYearsAndADayBefore(doc) =>
            /\ 2 \in BucketsOf(doc["_id"])
            /\ 1 \notin BucketsOf(doc["_id"])
            /\ 3 \notin BucketsOf(doc["_id"])

\* C2 amended: an account created exactly 2 years and 1 day before the
\* reference date is in no bucket, neither 2 nor 1 nor 3: bucket 2 is taken
\* from the anniversary day itself, not from the day before it.
C2_DayBeforeInNoBucket ==
    Returned =>
        \A doc \in Accounts : CreatedTwoYearsAndADayBefore(doc) =>
            BucketsOf(doc["_id"]) = {}

\* Such an account next to one that the call did put in bucket 2.
C2_Witness ==
    /\ Returned
    /\ \E doc \in Accounts : CreatedTwoYearsAndADayBefore(doc)
    /\ 2 \in DOMAIN last.ret

\* C3: the keys of the returned mapping lie in 1..N, N the number of whole
\* years from the minimum creation date to the reference date, and every
\* account identifier is in at most one bucket.
C3_BucketsPartition ==
    Returned =>
        /\ DOMAIN last.ret \subseteq
              1..WholeYears(last.min_account_creation_date,
                            last.reference_date)
        /\ \A doc \in Accounts : Cardinality(BucketsOf(doc["_id"])) <= 1
        /\ \A y \in DOMAIN last.ret : \A i, j \in 1..Len(last.ret[y]) :
              last.ret[y][i] = last.ret[y][j] => i = j

\* Two accounts in two buckets, found by year steps from 1 March 2021 over
\* 29 February 2020 to 1 March 2019; the last bucket is that of year N.
C3_Witness ==
    /\ Returned
    /\ DOMAIN last.ret = {1, 2}
    /\ WholeYears(last.min_account_creation_date, last.reference_date) = 2
    /\ last.reference_date.year = 2021
    /\ last.reference_date.month = 3

\* While the loop runs it has issued one query per year it went back, and
\* never more than there are whole years between the two dates.
LoopBounded ==
    frame.pc = "while" =>
        /\ frame.queries = frame.anniversary_years - 1
        /\ frame.queries <=
              WholeYears(frame.min_account_creation_date, frame.reference_date)

\* The loop stopped at the first year step whose anniversary day precedes
\* the minimum creation date.
StoppedAtFirst ==
    Returned =>
        /\ \A n \in 1..last.queries :
              AtOrAfter(NthAnniversaryDay(last.reference_date, n),
                        last.min_account_creation_date)
        /\ ~AtOrAfter(NthAnniversaryDay(last.reference_date, last.queries + 1),
                      last.min_account_creation_date)
        /\ last.queries <=
              WholeYears(last.min_account_creation_date, last.reference_date)

\* C8: the loop of get_anniversary_account_ids terminates; it stops at the
\* first year step whose anniversary day precedes the minimum creation date
\* and issues at most one query per whole year between the two dates.
C8_LoopTerminates ==
    /\ []LoopBounded
    /\ []StoppedAtFirst
    /\ (frame.pc = "while") ~> (frame.pc = "idle")

\* A call that issued one query for each of three whole years.
C8_Witness ==
    /\ Returned
    /\ last.queries = 3
    /\ WholeYears(last.min_account_creation_date, last.reference_date) = 3

\* C9: both bounds of a year's window are strict: an account created at
\* midnight of an anniversary day, or at midnight of the day after it, is in
\* no bucket, and an account created strictly between the two midnights is
\* in the bucket of that year.
C9_StrictOneDayWindows ==
    Returned =>
        \A doc \in Accounts : \A n \in 1..last.queries :
            LET day == NthAnniversaryDay(last.reference_date, n)
                lower == to_timestamp(day)
                upper == to_timestamp(PlusOneDay(day))
                created == doc["creation_date"]
            IN /\ created \in {lower, upper} => BucketsOf(doc["_id"]) = {}
               /\ (lower < created /\ created < upper) =>
                     n \in BucketsOf(doc["_id"])

=============================================================================
